---- MODULE Spec2Model ----
(***************************************************************************)
(* Model of src/shor/_add_same_size_no_controls.py: the in-place ripple    *)
(* adder do_addition_with_same_size_and_no_controls, the size wrapper      *)
(* do_addition_no_controls, the control-lifting wrapper do_addition and    *)
(* the Dagger-derived subtractions.                                        *)
(*                                                                         *)
(* The engine is a classical permutation simulator: every command that     *)
(* reaches it is appended to `received` and applied to `bits` at once.     *)
(* Inside `with Dagger(eng)` commands are held in `buffer` and, when the   *)
(* block is left, sent in reverse order, each replaced by its inverse.     *)
(***************************************************************************)
EXTENDS Integers, Sequences, FiniteSets, TLC

\* ---------------------------------------------------------------- bounds
MaxLen == 3          \* longest register drawn for input_reg and target_reg
MaxControls == 2     \* largest control set drawn
RecursionLimit == 4  \* depth at which the interpreter raises RecursionError
MaxCalls == 2        \* calls made one after the other on the same registers

\* range(2) of the double-add-invert loop
Rounds == 2

VARIABLES
    fn,          \* the function the caller invokes
    input_reg,   \* the caller's input register
    target_reg,  \* the caller's target register
    dagger,      \* TRUE when the current call runs inside `with Dagger(eng)`
    calls,       \* dagger flag of every call started so far, in order
    stack,       \* call stack of frames, innermost last
    controls,    \* do_addition's controls argument
    round,       \* completed iterations of do_addition's loop
    buffer,      \* commands held back by Dagger
    received,    \* commands the engine has received, in order
    bits,        \* current value of every allocated bit
    bits0,       \* value of every bit before the first call
    outcome      \* "running", "returned" or the name of the raised exception

vars == <<fn, input_reg, target_reg, dagger, calls, stack, controls, round,
          buffer, received, bits, bits0, outcome>>

\* ------------------------------------------------------------- registers
\* Qureg of the given kind and length; element j+1 is the bit of weight 2^j.
Qureg(kind, len) == [j \in 1..len |-> <<kind, j - 1>>]

dirty == <<"dirty", 0>>

Range(s) == {s[j] : j \in 1..Len(s)}

\* s[::-1]
Reversed(s) == [j \in 1..Len(s) |-> s[Len(s) + 1 - j]]

\* s[:m]
Prefix(s, m) == SubSeq(s, 1, IF m < Len(s) THEN m ELSE Len(s))

\* s[:-1]
AllButLast(s) == SubSeq(s, 1, Len(s) - 1)

\* s[-1]
Last(s) == s[Len(s)]

Pow2(m) == 2 ^ m

RECURSIVE RegValue(_, _)
\* unsigned little-endian value of register reg under the assignment b
RegValue(reg, b) ==
    IF reg = <<>> THEN 0
    ELSE b[reg[1]] + 2 * RegValue(Tail(reg), b)

\* ----------------------------------------------------------------- gates
\* A command: gate kind, control qubits, and the qubits the gate acts on.
Command(kind, ctrl, args) == [gate |-> kind, ctrl |-> ctrl, args |-> args]

\* cnot = C(X)
cnot(c, t) == Command("X", <<c>>, <<t>>)

\* cnots = C(All(X))
cnots(c, ts) == Command("AllX", <<c>>, ts)

\* cswap = C(Swap): the first qubit given is the control
cswap(c, x, y) == Command("Swap", <<c>>, <<x, y>>)

RECURSIVE FlipAll(_, _)
FlipAll(ts, b) ==
    IF ts = <<>> THEN b
    ELSE FlipAll(Tail(ts), [b EXCEPT ![ts[1]] = 1 - @])

\* effect of one command on a classical bit assignment
Apply(g, b) ==
    IF \E j \in 1..Len(g.ctrl) : b[g.ctrl[j]] = 0 THEN b
    ELSE IF g.gate = "Swap"
         THEN [b EXCEPT ![g.args[1]] = b[g.args[2]], ![g.args[2]] = b[g.args[1]]]
         ELSE FlipAll(g.args, b)

RECURSIVE Run(_, _)
Run(gs, b) == IF gs = <<>> THEN b ELSE Run(Tail(gs), Apply(gs[1], b))

\* get_inverse: X, All(X) and Swap are self-inverse, controls are kept
Inverse(g) == Command(g.gate, g.ctrl, g.args)

DaggerNoReverse(buf) == [j \in 1..Len(buf) |-> Inverse(buf[j])]

\* what Dagger sends on leaving the block
DaggerOutput(buf) == [j \in 1..Len(buf) |-> Inverse(buf[Len(buf) + 1 - j])]

\* ------------------------------------------------- the five-phase adder
\* carry_bit = input_reg[-1]
carry_bit(inp) == Last(inp)

\* (1) cnots | (carry_bit, (input_reg[:-1] + target_reg)[::-1])
DirtyMsbGate(inp, tgt) ==
    cnots(carry_bit(inp), Reversed(AllButLast(inp) \o tgt))

RippleCountOffByOne(n) == n

\* range(n - 1): number of ripple iterations
RippleCount(n) == n - 1

ForwardCnotFromInput(inp, tgt, i) == cnot(inp[i + 1], tgt[i + 1])

\* (2) cnot | (carry_bit, target_reg[i])
ForwardCnotGate(inp, tgt, i) == cnot(carry_bit(inp), tgt[i + 1])

RippleCswapOnCarry(inp, tgt, i) == cswap(carry_bit(inp), tgt[i + 1], inp[i + 1])

\* (2), (4) cswap | (target_reg[i], carry_bit, input_reg[i])
RippleCswapGate(inp, tgt, i) == cswap(tgt[i + 1], carry_bit(inp), inp[i + 1])

\* (3) cnot | (carry_bit, target_reg[-1])
HighBitGate(inp, tgt) == cnot(carry_bit(inp), Last(tgt))

\* (4) cnot | (input_reg[i], target_reg[i])
BackwardCnotGate(inp, tgt, i) == cnot(inp[i + 1], tgt[i + 1])

DirtyMsbInverseInputOnly(inp, tgt) == cnots(carry_bit(inp), AllButLast(inp))

\* (5) cnots | (carry_bit, input_reg[:-1] + target_reg)
DirtyMsbInverseGate(inp, tgt) ==
    cnots(carry_bit(inp), AllButLast(inp) \o tgt)

\* ------------------------------------------------------ the two wrappers
TargetCoversInput(inp, tgt) == Len(inp) <= Len(tgt)

\* len(input_reg) >= len(target_reg)
InputCoversTarget(inp, tgt) == Len(inp) >= Len(tgt)

\* input_reg[:len(target_reg)]
Truncated(inp, tgt) == Prefix(inp, Len(tgt))

\* expanded = [dirty] + target_reg
expanded(tgt) == <<dirty>> \o tgt

\* C(All(X), len(controls)) | (controls, expanded) ; All(X) | expanded
InvertGates(ctl, tgt) ==
    << Command("AllX", ctl, expanded(tgt)), Command("AllX", <<>>, expanded(tgt)) >>

\* ------------------------------------------------------------ call stack
Frame(f, inp, tgt) ==
    [fn |-> f, pc |-> "enter", input_reg |-> inp, target_reg |-> tgt, i |-> 0]

Top == stack[Len(stack)]

Running == outcome = "running" /\ stack # <<>>

At(f, p) == Running /\ Top.fn = f /\ Top.pc = p

SetTop(f) == stack' = [stack EXCEPT ![Len(stack)] = f]

Goto(p, j) == SetTop([Top EXCEPT !.pc = p, !.i = j])

\* push a callee frame; the caller waits at pc p
Call(p, callee) == stack' = Append([stack EXCEPT ![Len(stack)].pc = p], callee)

\* hand commands to the engine, or to Dagger's buffer inside a Dagger block
SendAll(gs) ==
    IF dagger
    THEN /\ buffer' = buffer \o gs
         /\ UNCHANGED <<received, bits>>
    ELSE /\ received' = received \o gs
         /\ bits' = Run(gs, bits)
         /\ UNCHANGED buffer

Send(g) == SendAll(<<g>>)

Raise(e) ==
    /\ outcome' = e
    /\ UNCHANGED <<fn, input_reg, target_reg, dagger, calls, stack, controls,
                   round, buffer, received, bits, bits0>>

Quiet == UNCHANGED <<buffer, received, bits>>

Same == UNCHANGED <<fn, input_reg, target_reg, dagger, calls, controls, bits0>>

\* ------------------------------------------------------------------ Init
Qubits(f, inp, tgt, ctl) ==
    Range(inp) \cup Range(tgt)
        \cup (IF f = "do_addition" THEN {dirty} \cup Range(ctl) ELSE {})

Functions ==
    {"do_addition_with_same_size_and_no_controls", "do_addition_no_controls",
     "do_addition"}

Init ==
    /\ fn \in Functions
    /\ \E li \in 0..MaxLen : input_reg = Qureg("input", li)
    /\ \E lt \in 0..MaxLen : target_reg = Qureg("target", lt)
    /\ \E k \in 0..MaxControls :
           /\ fn # "do_addition" => k = 0
           /\ controls = Qureg("control", k)
    /\ dagger \in BOOLEAN
    /\ calls = <<dagger>>
    /\ stack = <<Frame(fn, input_reg, target_reg)>>
    /\ round = 0
    /\ buffer = <<>>
    /\ received = <<>>
    /\ bits \in [Qubits(fn, input_reg, target_reg, controls) -> {0, 1}]
    /\ bits0 = bits
    /\ outcome = "running"

\* ------------------- do_addition_with_same_size_and_no_controls (9-85)
SameSize == "do_addition_with_same_size_and_no_controls"

\* assert len(input_reg) == len(target_reg) fails
SameSizeAssertionError ==
    /\ At(SameSize, "enter")
    /\ Len(Top.input_reg) # Len(Top.target_reg)
    /\ Raise("AssertionError")

\* if n == 0: return
SameSizeEmpty ==
    /\ At(SameSize, "enter")
    /\ Len(Top.input_reg) = Len(Top.target_reg)
    /\ Len(Top.target_reg) = 0
    /\ Goto("return", 0)
    /\ Quiet /\ Same /\ UNCHANGED <<round, outcome>>

\* (1) Dirty MSB correction.
DirtyMsbCorrection ==
    /\ At(SameSize, "enter")
    /\ Len(Top.input_reg) = Len(Top.target_reg)
    /\ Len(Top.target_reg) # 0
    /\ Send(DirtyMsbGate(Top.input_reg, Top.target_reg))
    /\ Goto(IF RippleCount(Len(Top.target_reg)) > 0 THEN "forward_cnot" ELSE "high", 0)
    /\ Same /\ UNCHANGED <<round, outcome>>

\* (2) Ripple forward: the controlled-NOT of iteration i.
RippleForwardCnot ==
    /\ At(SameSize, "forward_cnot")
    /\ Send(ForwardCnotGate(Top.input_reg, Top.target_reg, Top.i))
    /\ Goto("forward_cswap", Top.i)
    /\ Same /\ UNCHANGED <<round, outcome>>

\* (2) Ripple forward: the controlled-SWAP of iteration i, then the next i.
RippleForwardCswap ==
    /\ At(SameSize, "forward_cswap")
    /\ Send(RippleCswapGate(Top.input_reg, Top.target_reg, Top.i))
    /\ IF Top.i + 1 < RippleCount(Len(Top.target_reg))
       THEN Goto("forward_cnot", Top.i + 1)
       ELSE Goto("high", Top.i)
    /\ Same /\ UNCHANGED <<round, outcome>>

\* (3) High bit toggle.
HighBitToggle ==
    /\ At(SameSize, "high")
    /\ Send(HighBitGate(Top.input_reg, Top.target_reg))
    /\ IF RippleCount(Len(Top.target_reg)) > 0
       THEN Goto("backward_cswap", RippleCount(Len(Top.target_reg)) - 1)
       ELSE Goto("phase5", Top.i)
    /\ Same /\ UNCHANGED <<round, outcome>>

\* (4) Ripple backward: the controlled-SWAP of iteration i.
RippleBackwardCswap ==
    /\ At(SameSize, "backward_cswap")
    /\ Send(RippleCswapGate(Top.input_reg, Top.target_reg, Top.i))
    /\ Goto("backward_cnot", Top.i)
    /\ Same /\ UNCHANGED <<round, outcome>>

\* (4) Ripple backward: the controlled-NOT of iteration i, then the next i.
RippleBackwardCnot ==
    /\ At(SameSize, "backward_cnot")
    /\ Send(BackwardCnotGate(Top.input_reg, Top.target_reg, Top.i))
    /\ IF Top.i > 0
       THEN Goto("backward_cswap", Top.i - 1)
       ELSE Goto("phase5", Top.i)
    /\ Same /\ UNCHANGED <<round, outcome>>

\* (5) Dirty MSB correction.
DirtyMsbCorrectionInverse ==
    /\ At(SameSize, "phase5")
    /\ Send(DirtyMsbInverseGate(Top.input_reg, Top.target_reg))
    /\ Goto("return", Top.i)
    /\ Same /\ UNCHANGED <<round, outcome>>

\* ------------------------------------- do_addition_no_controls (88-95)
\* the interpreter allows RecursionLimit frames
StackFull == Len(stack) >= RecursionLimit

\* line 91: the call made on the truncated input register
NoControlsCallee(inp, tgt) ==
    Frame("do_addition_no_controls", Truncated(inp, tgt), tgt)

\* len(input_reg) >= len(target_reg): the call of line 91
NoControlsTruncate ==
    /\ At("do_addition_no_controls", "enter")
    /\ InputCoversTarget(Top.input_reg, Top.target_reg)
    /\ ~StackFull
    /\ Call("called", NoControlsCallee(Top.input_reg, Top.target_reg))
    /\ Quiet /\ Same /\ UNCHANGED <<round, outcome>>

\* the call of line 91 made when the interpreter's stack is full
NoControlsRecursionError ==
    /\ At("do_addition_no_controls", "enter")
    /\ InputCoversTarget(Top.input_reg, Top.target_reg)
    /\ StackFull
    /\ Raise("RecursionError")

\* raise NotImplementedError()
NoControlsNotImplemented ==
    /\ At("do_addition_no_controls", "enter")
    /\ ~InputCoversTarget(Top.input_reg, Top.target_reg)
    /\ Raise("NotImplementedError")

\* ------------------------------------------------ do_addition (98-107)
\* if len(controls) == 0: return do_addition_no_controls(...)
AdditionWithoutControls ==
    /\ At("do_addition", "enter")
    /\ Len(controls) = 0
    /\ Call("called", Frame("do_addition_no_controls", Top.input_reg, Top.target_reg))
    /\ Quiet /\ Same /\ UNCHANGED <<round, outcome>>

\* for _ in range(2): do_addition_no_controls(eng, input_reg, expanded)
AdditionPass ==
    /\ Running /\ Top.fn = "do_addition" /\ Top.pc \in {"enter", "loop"}
    /\ Len(controls) # 0
    /\ round < Rounds
    /\ Call("invert",
            Frame("do_addition_no_controls", Top.input_reg, expanded(Top.target_reg)))
    /\ Quiet /\ Same /\ UNCHANGED <<round, outcome>>

\* -------------------------------------------------------------- returns
\* No call of do_addition_no_controls ever reaches pc "return" (line 91
\* calls the function itself), so only the first branch below is taken.
\* A function body has run to its end and control goes back to the caller:
\* the engine's caller (leaving the Dagger block, if any), line 92 or 100
\* (which return in turn), or the loop body of do_addition, which goes on
\* with lines 106 and 107.
Return ==
    /\ Running /\ Top.pc = "return"
    /\ Same
    /\ IF Len(stack) = 1
       THEN /\ stack' = <<>>
            /\ outcome' = "returned"
            /\ round' = round
            /\ IF dagger
               THEN /\ received' = received \o DaggerOutput(buffer)
                    /\ bits' = Run(DaggerOutput(buffer), bits)
                    /\ buffer' = <<>>
               ELSE Quiet
       ELSE LET caller == stack[Len(stack) - 1]
                rest == SubSeq(stack, 1, Len(stack) - 2)
            IN  IF caller.pc = "invert"
                THEN /\ SendAll(InvertGates(controls, caller.target_reg))
                     /\ round' = round + 1
                     /\ stack' = Append(rest,
                            [caller EXCEPT !.pc = IF round + 1 < Rounds
                                                  THEN "loop" ELSE "return"])
                     /\ outcome' = outcome
                ELSE /\ stack' = Append(rest, [caller EXCEPT !.pc = "return"])
                     /\ Quiet
                     /\ UNCHANGED <<round, outcome>>

\* the caller makes one more call on the same registers, inside Dagger or not
NextCall ==
    /\ outcome = "returned"
    /\ Len(calls) < MaxCalls
    /\ \E d \in BOOLEAN :
          /\ dagger' = d
          /\ calls' = Append(calls, d)
    /\ stack' = <<Frame(fn, input_reg, target_reg)>>
    /\ round' = 0
    /\ outcome' = "running"
    /\ Quiet
    /\ UNCHANGED <<fn, input_reg, target_reg, controls, bits0>>

Next ==
    \/ SameSizeAssertionError
    \/ SameSizeEmpty
    \/ DirtyMsbCorrection
    \/ RippleForwardCnot
    \/ RippleForwardCswap
    \/ HighBitToggle
    \/ RippleBackwardCswap
    \/ RippleBackwardCnot
    \/ DirtyMsbCorrectionInverse
    \/ NoControlsTruncate
    \/ NoControlsRecursionError
    \/ NoControlsNotImplemented
    \/ AdditionWithoutControls
    \/ AdditionPass
    \/ Return
    \/ NextCall

Spec == Init /\ [][Next]_vars

\* =============================================================== claims
n == Len(target_reg)

\* the registers' values before the first call
a0 == RegValue(input_reg, bits0)

b0 == RegValue(target_reg, bits0)

EqualLength == Len(input_reg) = Len(target_reg)

\* the only call so far was made with Dagger flag d and has returned
ReturnedAfter(d) == outcome = "returned" /\ calls = d

InputRestored == \A q \in Range(input_reg) : bits[q] = bits0[q]

Xor(x, y) == (x + y) % 2

BitOf(v, j) == (v \div Pow2(j)) % 2

\* the carry into bit j of x + y
CarryInto(x, y, j) == ((x % Pow2(j)) + (y % Pow2(j))) \div Pow2(j)

IsCnot(g, c, t) == g.gate = "X" /\ g.ctrl = <<c>> /\ g.args = <<t>>

IsCswap(g, c, x, y) ==
    g.gate = "Swap" /\ g.ctrl = <<c>> /\ Len(g.args) = 2 /\ Range(g.args) = {x, y}

CountOf(kind) == Cardinality({j \in 1..Len(received) : received[j].gate = kind})

C2_ControlGating ==
    (fn = "do_addition" /\ Len(controls) >= 1 /\ Len(input_reg) >= n
        /\ calls = <<FALSE>> /\ outcome # "running") =>
        /\ outcome = "returned"
        /\ InputRestored
        /\ \A q \in Range(controls) \cup {dirty} : bits[q] = bits0[q]
        /\ RegValue(target_reg, bits) =
               IF \A q \in Range(controls) : bits0[q] = 1
               THEN (a0 + b0) % Pow2(n)
               ELSE b0

\* C3: with len(input_reg) >= len(target_reg) = n, do_addition_no_controls
\* adds the low n bits of input into target and leaves input as it was.
C3_Truncation ==
    (fn = "do_addition_no_controls" /\ Len(input_reg) >= Len(target_reg)
        /\ calls = <<FALSE>> /\ outcome # "running") =>
        /\ outcome = "returned"
        /\ RegValue(target_reg, bits) = (b0 + (a0 % Pow2(n))) % Pow2(n)
        /\ InputRestored

\* C4: a call of do_addition_no_controls or do_addition returns or ends in
\* NotImplementedError; it never runs out of stack by recursing.
C4_Terminates ==
    fn \in {"do_addition_no_controls", "do_addition"} =>
        outcome \in {"running", "returned", "NotImplementedError"}

C6_LongerTargetFails ==
    (fn = "do_addition_no_controls" /\ Len(input_reg) < Len(target_reg)) =>
        /\ received = <<>> /\ buffer = <<>> /\ bits = bits0
        /\ outcome \in {"running", "NotImplementedError"}
        /\ outcome = "running" => Len(stack) = 1 /\ Top.pc = "enter"

C6_Witness ==
    /\ fn = "do_addition_no_controls" /\ Len(input_reg) < Len(target_reg)
    /\ Len(input_reg) >= 1
    /\ outcome = "NotImplementedError"

\* C7: do_addition with an empty target and at least one control returns
\* normally and leaves input, controls and the dirty bit unchanged.
C7_EmptyTargetNoOp ==
    (fn = "do_addition" /\ Len(target_reg) = 0 /\ Len(controls) >= 1
        /\ outcome # "running") =>
        /\ outcome = "returned"
        /\ bits = bits0

\* C8: the adder emits nothing for n = 0 and, for n >= 1, exactly 4n - 1
\* commands: 2 multi-target CNOTs, 2n - 1 CNOTs and 2(n - 1) CSWAPs; for
\* n = 1 these are phases 1, 3 and 5 alone.
C8_GateCount ==
    (fn = SameSize /\ EqualLength /\ outcome = "returned" /\ Len(calls) = 1) =>
        /\ n = 0 => received = <<>>
        /\ n >= 1 =>
              /\ Len(received) = 4 * n - 1
              /\ CountOf("AllX") = 2
              /\ CountOf("X") = 2 * n - 1
              /\ CountOf("Swap") = 2 * (n - 1)
        /\ n = 1 => [j \in 1..3 |-> received[j].gate] = <<"AllX", "X", "AllX">>

C8_Witness ==
    /\ fn = SameSize /\ EqualLength /\ outcome = "returned" /\ Len(calls) = 1
    /\ n >= 3

\* the ripple commands of a returned, undaggered first call: forward iteration
\* i is commands 2i+2 and 2i+3, backward iteration i is 4n-2i-3 and 4n-2i-2
ForwardPair(i) == <<received[2 * i + 2], received[2 * i + 3]>>

BackwardPair(i) == <<received[4 * n - 2 * i - 3], received[4 * n - 2 * i - 2]>>

RippleEmitted == fn = SameSize /\ EqualLength /\ ReturnedAfter(<<FALSE>>) /\ n >= 1

\* C9 as stated: the controlled-SWAP of both ripples is controlled by the
\* carry bit and exchanges target[i] and input[i].
C9_AsStated ==
    RippleEmitted =>
        \A i \in 0..(n - 2) :
            LET c == carry_bit(input_reg)
                t == target_reg[i + 1]
                x == input_reg[i + 1]
            IN  /\ IsCnot(ForwardPair(i)[1], c, t)
                /\ IsCswap(ForwardPair(i)[2], c, t, x)
                /\ IsCswap(BackwardPair(i)[1], c, t, x)
                /\ IsCnot(BackwardPair(i)[2], x, t)

\* C9 amended: forward iteration i, for i increasing from 0 to n-2, emits a
\* CNOT from the carry bit into target[i] and then a controlled-SWAP whose
\* control is target[i] and which exchanges the carry bit and input[i]; the
\* backward ripple emits the same controlled-SWAP for i from n-2 down to 0,
\* each followed by a CNOT from input[i] into target[i].
C9_RippleShape ==
    RippleEmitted =>
        \A i \in 0..(n - 2) :
            LET c == carry_bit(input_reg)
                t == target_reg[i + 1]
                x == input_reg[i + 1]
            IN  /\ IsCnot(ForwardPair(i)[1], c, t)
                /\ IsCswap(ForwardPair(i)[2], t, c, x)
                /\ IsCswap(BackwardPair(i)[1], t, c, x)
                /\ IsCnot(BackwardPair(i)[2], x, t)

C9_Witness == RippleEmitted /\ n >= 3

\* the first call, made outside Dagger, is inside the adder
InAdder ==
    /\ fn = SameSize /\ EqualLength /\ calls = <<FALSE>> /\ Running
    /\ n >= 2

\* forward iteration j has just run
AfterForward(j) ==
    \/ Top.pc = "forward_cnot" /\ Top.i = j + 1
    \/ Top.pc = "high" /\ j = n - 2

\* backward iteration j has just run
AfterBackward(j) ==
    \/ Top.pc = "backward_cswap" /\ Top.i = j - 1
    \/ Top.pc = "phase5" /\ j = 0

\* C10: with c the initial top input bit and k_j the carry into bit j of
\* a + b, after forward iteration i the carry line holds c XOR k_(i+1) and
\* target[i] holds b_i XOR k_i; after backward iteration i the carry line
\* holds c XOR k_i, hence c when phase 5 starts.
C10_CarryLine ==
    InAdder =>
        LET c == bits0[carry_bit(input_reg)]
            line == bits[carry_bit(input_reg)]
        IN  /\ \A j \in 0..(n - 2) :
                  /\ AfterForward(j) =>
                        /\ line = Xor(c, CarryInto(a0, b0, j + 1))
                        /\ bits[target_reg[j + 1]] =
                               Xor(BitOf(b0, j), CarryInto(a0, b0, j))
                  /\ AfterBackward(j) => line = Xor(c, CarryInto(a0, b0, j))
            /\ Top.pc = "phase5" => line = c

\* the forward ripple has ended with a carry into the top bit, the carry
\* line having started at 1
C10_Witness ==
    /\ InAdder /\ n >= 3
    /\ Top.pc = "high"
    /\ bits0[carry_bit(input_reg)] = 1
    /\ CarryInto(a0, b0, n - 1) = 1
    /\ CarryInto(a0, b0, 1) = 0

====
